---- MODULE Spec2Model ----
(***************************************************************************)
(* Model of find_longest_paths (src/src/main.rs), the recursive coverage   *)
(* planner of frontier-route.  A graph value is the set of ids of its      *)
(* nodes; the edges of every derived graph are the edges of the input      *)
(* graph between surviving nodes (filter_nodes keeps every edge whose two  *)
(* endpoints survive).  The recursion is an explicit stack of frames.      *)
(***************************************************************************)
EXTENDS Integers, Sequences, FiniteSets, TLC

\* Largest number of nodes of an input graph.
MaxNodes == 5

\* min_intermediate_nodes argument of algo::all_simple_paths (main.rs:111).
MinIntermediate == 0

VARIABLES
    nodes,      \* ids of the nodes of the input graph (original_graph of the top call)
    edges,      \* undirected edges of the input graph, each a set of two ids
    start_id,   \* start id of the top-level call
    stack,      \* call stack of find_longest_paths, top-level call first
    status,     \* "running", "done", or the message of the expect that aborted the run
    route,      \* value returned by the top-level call
    run,        \* 1 during the first run on the input, 2 during the second
    first,      \* length and id set of the route the first run returned (history)
    last,       \* the most recent reduction step (history)
    consumed    \* consumed[n]: number of reduction steps that consumed node n (history)

vars == <<nodes, edges, start_id, stack, status, route, run, first, last, consumed>>

----------------------------------------------------------------------------
\* Helpers on sequences and sets.

Range(s) == {s[i] : i \in 1..Len(s)}

Last(s) == s[Len(s)]

\* Variant: the skip(1) is left out, the sequence keeps its first element.
Skip1_NoSkip(s) == s

\* Iterator::skip(1)
Skip1(s) == SubSeq(s, 2, Len(s))

Shortest(S) == {p \in S : \A q \in S : Len(p) <= Len(q)}

\* max_by_key(|v| v.len()): one of the longest elements; which one of several
\* equally long ones depends on the iteration order, which is not fixed.
MaxByLen(S) == {p \in S : \A q \in S : Len(q) <= Len(p)}

Pairs(S) == {e \in SUBSET S : Cardinality(e) = 2}

\* graph.neighbors(v) in the graph whose node set is g
Neighbors(g, v) == {u \in g : {u, v} \in edges}

----------------------------------------------------------------------------
\* petgraph's algo::all_simple_paths(&graph, from, to, 0, None): a depth-first
\* walk keeping the list of visited nodes.  A child equal to `to` closes a path
\* (it is tested before the visited test, so `to` may be `from` itself); any
\* other unvisited child is pushed while fewer than max_length nodes are
\* visited; at max_length nodes only the lookahead for `to` is done.
RECURSIVE Walk(_, _, _)
Walk(g, to, visited) ==
    LET max_length == Cardinality(g) - 1
        min_length == MinIntermediate + 1
        children   == Neighbors(g, Last(visited))
        closing    == IF to \in children /\ Len(visited) >= min_length
                      THEN {Append(visited, to)} ELSE {}
    IN  IF Len(visited) < max_length
        THEN closing \cup
             UNION {Walk(g, to, Append(visited, c)) :
                        c \in children \ ({to} \cup Range(visited))}
        ELSE closing

all_simple_paths(g, from, to) == Walk(g, to, <<from>>)

\* The parallel search of main.rs:110-112: per target n the longest of the
\* paths to n, then the longest over all targets.
PathSearch(g, start_index) ==
    MaxByLen(UNION {MaxByLen(all_simple_paths(g, start_index, n)) : n \in g})

\* algo::astar with unit edge cost and zero estimate: a fewest-hops path from
\* `from` to `goal`, both ends included; the empty set when there is none.
RECURSIVE SimplePaths(_, _, _)
SimplePaths(g, goal, visited) ==
    IF Last(visited) = goal
    THEN {visited}
    ELSE UNION {SimplePaths(g, goal, Append(visited, c)) :
                    c \in Neighbors(g, Last(visited)) \ Range(visited)}

\* Variant: the search gives up after one hop.
astar_OneHop(g, from, goal) ==
    {p \in SimplePaths(g, goal, <<from>>) : Len(p) <= 2}

\* Variant: the path is returned from the goal to `from` (arguments swapped).
astar_Swapped(g, from, goal) ==
    Shortest(SimplePaths(g, from, <<goal>>))

astar(g, from, goal) == Shortest(SimplePaths(g, goal, <<from>>))

\* Variant: the negation is left out, the nodes of the path are the ones kept.
Reduce_KeepPath(g, full_path, start_index) ==
    {n \in g : n \in Range(full_path) \/ n = start_index}

\* Variant: the anchor is not exempted from the removal.
Reduce_NoAnchor(g, full_path, start_index) ==
    {n \in g : n \notin Range(full_path)}

\* filter_nodes(&graph, |i, _| !full_path.contains(&i) || i == start_index)
Reduce(g, full_path, start_index) ==
    {n \in g : n \notin Range(full_path) \/ n = start_index}

\* Variant: only the new anchor is kept, the unvisited remainder is dropped.
SubGraph_IdOnly(original, result, final_result, id) ==
    {n \in original : n = id}

\* Variant: the ids of the flat result are not excluded.
SubGraph_NoResult(original, result, final_result, id) ==
    {n \in original : n \notin Range(final_result) \/ n = id}

\* Variant: the ids already placed in the output are not excluded.
SubGraph_NoFinal(original, result, final_result, id) ==
    {n \in original : n \notin Range(result) \/ n = id}

\* filter_nodes(&original_graph, |_, n| (!result.contains(&n.id)
\*     && !final_result.contains(&n.id)) || n.id == *id)
SubGraph(original, result, final_result, id) ==
    {n \in original :
        (n \notin Range(result) /\ n \notin Range(final_result)) \/ n = id}

----------------------------------------------------------------------------
\* One activation of find_longest_paths.
NewFrame(original, start) ==
    [original_graph |-> original, start_id |-> start, graph |-> original,
     result |-> <<>>, final_result |-> <<>>, visited |-> {start},
     pc |-> "loop", idx |-> 1, iters |-> 0, spliced |-> <<>>]

NoStep == [anchor |-> 0, before |-> {}, longest_path |-> <<>>,
           full_path |-> <<>>, after |-> {}, depth |-> 0]

Top == stack[Len(stack)]

SetTop(f) == [stack EXCEPT ![Len(stack)] = f]

Running == status = "running" /\ stack # <<>>

NoRoute == [len |-> 0, ids |-> {}]

Degree(E, v) == Cardinality({e \in E : v \in e})

\* The input graphs: one graph of every shape on the ids 1..k, k up to
\* MaxNodes.  The ids are opaque (the code only tests them for equality), so
\* a start id present in the graph is named 1 and the other ids are named in
\* order of decreasing degree; k + 1 is a start id absent from the graph.
InputGraphs(k) ==
    {E \in SUBSET Pairs(1..k) :
        \A i \in 2..(k - 1) : Degree(E, i) >= Degree(E, i + 1)}

Init ==
    /\ \E k \in 1..MaxNodes :
        /\ nodes = 1..k
        /\ edges \in InputGraphs(k)
        /\ start_id \in {1, k + 1}
    /\ stack = <<NewFrame(nodes, start_id)>>
    /\ status = "running"
    /\ route = <<>>
    /\ run = 1
    /\ first = NoRoute
    /\ last = NoStep
    /\ consumed = [n \in 1..MaxNodes |-> 0]

\* main.rs:106-108: the anchor is not a node of the working graph.
StartDisappeared ==
    /\ Running
    /\ Top.pc = "loop"
    /\ Top.start_id \notin Top.graph
    /\ status' = "Start node disappeared"
    /\ UNCHANGED <<nodes, edges, start_id, stack, route, run, first, last, consumed>>

\* main.rs:110-128: one iteration of the loop in which the search finds a path.
LoopStep ==
    /\ Running
    /\ Top.pc = "loop"
    /\ Top.start_id \in Top.graph
    /\ \E found \in PathSearch(Top.graph, Top.start_id) :
        LET longest_path == Skip1(found) IN
        IF longest_path = <<>>
        THEN /\ status' = "Got an empty path"
             /\ UNCHANGED <<stack, last, consumed>>
        ELSE LET returns == astar(Top.graph, Last(longest_path), Top.start_id) IN
             IF returns = {}
             THEN /\ status' = "Cannot return to start"
                  /\ UNCHANGED <<stack, last, consumed>>
             ELSE \E back \in returns :
                    LET return_path == Skip1(back)
                        full_path   == longest_path \o return_path
                        graph2      == Reduce(Top.graph, full_path, Top.start_id)
                    IN  /\ stack' = SetTop([Top EXCEPT
                                        !.result = @ \o full_path,
                                        !.graph = graph2,
                                        !.iters = @ + 1])
                        /\ last' = [anchor |-> Top.start_id, before |-> Top.graph,
                                    longest_path |-> found, full_path |-> full_path,
                                    after |-> graph2, depth |-> Len(stack)]
                        /\ consumed' = [n \in DOMAIN consumed |->
                                          IF n \in Range(full_path) /\ n # Top.start_id
                                          THEN consumed[n] + 1 ELSE consumed[n]]
                        /\ UNCHANGED status
    /\ UNCHANGED <<nodes, edges, start_id, route, run, first>>

\* main.rs:129-131: the search finds nothing, the loop ends.
LoopExit ==
    /\ Running
    /\ Top.pc = "loop"
    /\ Top.start_id \in Top.graph
    /\ PathSearch(Top.graph, Top.start_id) = {}
    /\ stack' = SetTop([Top EXCEPT !.pc = "splice", !.idx = 1, !.iters = @ + 1])
    /\ UNCHANGED <<nodes, edges, start_id, status, route, run, first, last, consumed>>

\* main.rs:138-141: an id of the flat result that was visited before.
SpliceVisited ==
    /\ Running
    /\ Top.pc = "splice"
    /\ Top.idx <= Len(Top.result)
    /\ Top.result[Top.idx] \in Top.visited
    /\ stack' = SetTop([Top EXCEPT
                    !.final_result = Append(@, Top.result[Top.idx]),
                    !.idx = @ + 1])
    /\ UNCHANGED <<nodes, edges, start_id, status, route, run, first, last, consumed>>

\* main.rs:138-143: a first-visited id; the recursive call is made.
SpliceCall ==
    /\ Running
    /\ Top.pc = "splice"
    /\ Top.idx <= Len(Top.result)
    /\ Top.result[Top.idx] \notin Top.visited
    /\ LET id           == Top.result[Top.idx]
           final_result == Append(Top.final_result, id)
           sub_graph    == SubGraph(Top.original_graph, Top.result, final_result, id)
       IN  stack' = Append(SetTop([Top EXCEPT !.final_result = final_result,
                                               !.pc = "call"]),
                           NewFrame(sub_graph, id))
    /\ UNCHANGED <<nodes, edges, start_id, status, route, run, first, last, consumed>>

\* main.rs:151 then 145-147: a recursive call returns its route to its caller.
Return ==
    /\ Running
    /\ Len(stack) > 1
    /\ Top.pc = "splice"
    /\ Top.idx > Len(Top.result)
    /\ LET path   == Top.final_result
           caller == stack[Len(stack) - 1]
           id     == caller.result[caller.idx]
       IN  stack' = [SubSeq(stack, 1, Len(stack) - 1) EXCEPT ![Len(stack) - 1] =
                        [caller EXCEPT
                            !.final_result = @ \o path,
                            !.visited = @ \cup {id},
                            !.idx = @ + 1,
                            !.pc = "splice",
                            !.spliced = Append(@, [id |-> id,
                                                   placed |-> Range(caller.final_result),
                                                   path |-> path])]]
    /\ UNCHANGED <<nodes, edges, start_id, status, route, run, first, last, consumed>>

\* main.rs:151: the top-level call returns.
Finish ==
    /\ Running
    /\ Len(stack) = 1
    /\ Top.pc = "splice"
    /\ Top.idx > Len(Top.result)
    /\ status' = "done"
    /\ route' = Top.final_result
    /\ UNCHANGED <<nodes, edges, start_id, stack, run, first, last, consumed>>

\* A second complete run of find_longest_paths on the same graph and start id.
SecondRun ==
    /\ status = "done"
    /\ run = 1
    /\ run' = 2
    /\ first' = [len |-> Len(route), ids |-> Range(route)]
    /\ route' = <<>>
    /\ status' = "running"
    /\ stack' = <<NewFrame(nodes, start_id)>>
    /\ last' = NoStep
    /\ consumed' = [n \in 1..MaxNodes |-> 0]
    /\ UNCHANGED <<nodes, edges, start_id>>

Next ==
    \/ StartDisappeared
    \/ LoopStep
    \/ LoopExit
    \/ SpliceVisited
    \/ SpliceCall
    \/ Return
    \/ Finish

\* One complete run of find_longest_paths.
Spec == Init /\ [][Next]_vars

NextTwoRuns ==
    \/ Next
    \/ SecondRun

\* Two complete runs on the same graph and start id, one after the other.
TwoRuns == Init /\ [][NextTwoRuns]_vars

----------------------------------------------------------------------------
\* Vocabulary of the properties.

RECURSIVE Reach(_, _)
Reach(g, S) ==
    LET T == S \cup {u \in g : \E v \in S : {u, v} \in edges}
    IN  IF T = S THEN S ELSE Reach(g, T)

Component(g, v) == Reach(g, {v})

Components == {Component(nodes, v) : v \in nodes}

Connected == Cardinality(Components) = 1

Simple(p) == \A i, j \in 1..Len(p) : i # j => p[i] # p[j]

Done == status = "done"

Frames == {stack[i] : i \in 1..Len(stack)}

Entries(f) == {f.spliced[i] : i \in 1..Len(f.spliced)}

----------------------------------------------------------------------------
\* C1 (as stated). Coverage: when a run on a connected graph has returned, the
\* set of distinct ids of the route equals the node set of the graph, the
\* graph whose only node is the start included.
C1_CoverageAsStated ==
    (Done /\ Connected) => Range(route) = nodes

\* C1 (amended). Coverage: when a run on a connected graph of at least two
\* nodes has returned, the set of distinct ids of the route equals the node
\* set of the graph; on the graph whose only node is the start the route is
\* empty.
C1_Coverage ==
    (Done /\ Connected) =>
        IF Cardinality(nodes) >= 2 THEN Range(route) = nodes ELSE route = <<>>

\* A finished run on a connected graph of three or more nodes in which a
\* recursive call contributed a non-empty sub-route.
C1_Witness ==
    /\ Done
    /\ Connected
    /\ Cardinality(nodes) >= 3
    /\ \E e \in Entries(stack[1]) : e.path # <<>>
    /\ Range(route) = nodes

C3_DeterminismAsStated ==
    (run = 2 /\ Done) =>
        (Len(route) = first.len /\ Range(route) = first.ids)

\* C3 (amended). Two complete runs on the same graph and start id return
\* routes with the same set of distinct ids (their lengths may differ).
C3_SameCoverage ==
    (run = 2 /\ Done) => Range(route) = first.ids

\* Two finished runs that returned routes of different lengths.
C3_Witness ==
    run = 2 /\ Done /\ Len(route) # first.len /\ first.len >= 3

\* C4 (as stated). On a graph of two disconnected components with the start
\* in one of them, a run that has ended has aborted with "Cannot return to
\* start"; it has not returned a route.
C4_NoReturnPathAsStated ==
    (Cardinality(Components) = 2 /\ start_id \in nodes /\ status # "running")
        => status = "Cannot return to start"

\* C4 (amended). On a graph of two disconnected components with the start in
\* one of them, the run never aborts with "Cannot return to start": it
\* returns normally, and the ids of its route together with the start are
\* exactly the component of the start.
C4_DisconnectedReturns ==
    (Cardinality(Components) = 2 /\ start_id \in nodes) =>
        /\ status \in {"running", "done"}
        /\ Done => Range(route) \cup {start_id} = Component(nodes, start_id)

\* A finished run on a two-component graph, with a non-empty route.
C4_Witness ==
    /\ Cardinality(Components) = 2
    /\ Done
    /\ Len(route) >= 3
    /\ Component(nodes, start_id) # nodes

\* C5. Simplicity: the path selected by the search in a loop iteration
\* contains each node at most once and has the anchor as its first element.
C5_Simplicity ==
    last.depth # 0 =>
        (Simple(last.longest_path) /\ last.longest_path[1] = last.anchor)

\* C6. Reduction monotonicity: every reduction step leaves strictly fewer
\* nodes than before it, and the loop of a recursion level runs at most
\* |nodes| iterations, the one that finds nothing included.
C6_ReductionMonotonicity ==
    /\ last.depth # 0 => Cardinality(last.after) < Cardinality(last.before)
    /\ \A f \in Frames :
          IF f.pc = "loop"
          THEN f.iters + 1 <= Cardinality(f.original_graph)
          ELSE f.iters <= Cardinality(f.original_graph)

\* A recursion level of three or more nodes whose loop ended after exactly
\* |nodes| iterations.
C6_Witness ==
    \E f \in Frames :
        /\ f.pc # "loop"
        /\ Cardinality(f.original_graph) >= 3
        /\ f.iters = Cardinality(f.original_graph)

\* C7. Recursion termination: every recursive call receives a graph with
\* strictly fewer nodes than the graph its caller received, and the depth of
\* the recursion is at most the number of nodes of the input graph.
C7_RecursionTermination ==
    /\ \A i \in 2..Len(stack) :
          Cardinality(stack[i].original_graph)
              < Cardinality(stack[i - 1].original_graph)
    /\ Len(stack) <= Cardinality(nodes)

\* Three nested activations.
C7_Witness ==
    Len(stack) >= 3

\* C8. Anchor retention: the working graph after a reduction step contains
\* the anchor, none of the other nodes of the consumed path, and every node
\* of the previous working graph that is not on that path; when the start id
\* is a node of the input graph the anchor of every activation is in its
\* working graph and "Start node disappeared" is never raised.
C8_AnchorRetention ==
    /\ last.depth # 0 =>
          /\ last.anchor \in last.after
          /\ (Range(last.full_path) \ {last.anchor}) \cap last.after = {}
          /\ (last.before \ Range(last.full_path)) \subseteq last.after
    /\ start_id \in nodes =>
          /\ status # "Start node disappeared"
          /\ \A f \in Frames : f.start_id \in f.graph

\* A reduction step inside a recursive call that leaves a node besides the
\* anchor.
C8_Witness ==
    /\ last.depth >= 2
    /\ Cardinality(last.after) >= 2
    /\ last.anchor \in last.after

\* C9. Splice disjointness: a sub-route returned by a recursive call rooted
\* at an id contains no id of the caller's flat result and no id placed in
\* the caller's output before the call, other than that id; the sub-routes
\* of two recursive calls of one level share no id; no node is consumed by
\* more than one reduction step, and when the run has returned every node of
\* the start's component other than the start was consumed exactly once.
C9_SpliceDisjointness ==
    /\ \A f \in Frames : \A e \in Entries(f) :
          Range(e.path) \cap (Range(f.result) \cup e.placed) \subseteq {e.id}
    /\ \A f \in Frames : \A i, j \in 1..Len(f.spliced) :
          i # j => Range(f.spliced[i].path) \cap Range(f.spliced[j].path) = {}
    /\ \A n \in DOMAIN consumed : consumed[n] <= 1
    /\ Done => /\ consumed[start_id] = 0
               /\ \A n \in Component(nodes, start_id) \ {start_id} : consumed[n] = 1

\* A level into which two recursive calls spliced non-empty sub-routes.
C9_Witness ==
    \E f \in Frames : \E i, j \in 1..Len(f.spliced) :
        /\ i # j
        /\ f.spliced[i].path # <<>>
        /\ f.spliced[j].path # <<>>

\* A walk of the input graph that leaves `from` and ends at `from`.
ClosedWalk(from, w) ==
    w # <<>> =>
        /\ {from, w[1]} \in edges
        /\ \A i \in 1..(Len(w) - 1) : {w[i], w[i + 1]} \in edges
        /\ Last(w) = from

\* C10. Closed walk: the returned route, when non-empty, starts at a
\* neighbour of the start, joins every two consecutive ids by an edge of the
\* input graph and ends at the start; every spliced sub-route is such a walk
\* from its junction id.
C10_ClosedWalk ==
    /\ Done => ClosedWalk(start_id, route)
    /\ \A f \in Frames : \A e \in Entries(f) : ClosedWalk(e.id, e.path)

\* A returned route of five or more ids containing a spliced sub-route.
C10_Witness ==
    /\ Done
    /\ Len(route) >= 5
    /\ \E e \in Entries(stack[1]) : e.path # <<>>

====
